---- MODULE Spec2Model ----
(***************************************************************************)
(* Model of the datoviz presenter (src/src/presenter.c): the coordinator   *)
(* that creates a window/surface/recorder for every canvas of the          *)
(* renderer and drives the per-window frame loop (fence wait, swapchain    *)
(* acquisition, recreation or record+submit+present).                      *)
(*                                                                         *)
(* The presenter runs on one CPU thread: every callback of the client's    *)
(* event loop is one atomic action.  The GPU runs concurrently: the        *)
(* submissions of a canvas complete one by one, in submission order        *)
(* (action GpuComplete).  A blocking CPU wait inside a callback returns    *)
(* once the GPU work it waits for has completed, so the callback's action  *)
(* removes that work from the in-flight queue.                             *)
(*                                                                         *)
(* Functions of the repository that presenter.c calls but that live in     *)
(* other files (vklite, canvas, recorder, gui, client) are modelled from   *)
(* the specification's description of them.                                *)
(***************************************************************************)
EXTENDS Integers, Sequences, FiniteSets, TLC

(***************************************************************************)
(* Parameters and bounds.                                                  *)
(***************************************************************************)

\* Number of frame slots (in_flight_count).  The macro is set in a header.
DVZ_MAX_FRAMES_IN_FLIGHT == 2

\* Capacity of the frame timestamp ring.  The macro is set in a header.
DVZ_MAX_TIMESTAMPS == 2

\* Number of swapchain images of a canvas (= cmds->count).
ImgCount == 2

\* Largest number of requests in one batch.
MaxBatch == 2

\* The history variable run_len saturates here.
MaxRun == 4

\* The history variable resizes saturates here.
MaxResizes == 2

\* Lifecycle runs: the ticks of the run, the canvases created, and the
\* overlay callbacks the user registers.
MaxTicks == 2
MaxCreates == 2
MaxUserCallbacks == 2

\* The ids of canvases and windows, and the ids of the canvases that the
\* frame-driver runs and the lifecycle runs create.
Ids == {1, 2}
FrameIds == {1}
Slots == 0 .. (DVZ_MAX_FRAMES_IN_FLIGHT - 1)
Imgs == 0 .. (ImgCount - 1)

\* The displays of the platform: the screen size <<width, height>> a window
\* has on it, and its ratio of framebuffer pixels to screen units.
Displays == {[size |-> <<2, 1>>, scale |-> 1], [size |-> <<1, 2>>, scale |-> 2]}
ScreenSizes == {d.size : d \in Displays}
ScaleOf(sz) == (CHOOSE d \in Displays : d.size = sz).scale

\* DvzCanvasFlags (bit masks).
DVZ_CANVAS_FLAGS_IMGUI == 1
DVZ_CANVAS_FLAGS_FPS == 3
DVZ_CANVAS_FLAGS_MONITOR == 5
DVZ_CANVAS_FLAGS_FULLSCREEN == 8

\* Outcomes of vkAcquireNextImageKHR as dvz_swapchain_acquire() tells them apart.
AcquireResults == {"SUCCESS", "SUBOPTIMAL", "OUT_OF_DATE", "ERROR"}

VARIABLES
    canvases,   \* rd: id -> DvzCanvas (with its recorder and sync objects)
    windows,    \* client: id -> DvzWindow
    inflight,   \* gpu: id -> the frame slots submitted and not yet completed
    surfaces,   \* prt->surfaces
    guis,       \* prt->maps.guis (the ids that have a GUI window)
    callbacks,  \* prt->callbacks
    log,        \* the calls made by the most recent callback, in order
    hist,       \* history of each canvas since its creation
    prt,        \* the presenter object and prt->gui
    gui_windows,\* gui: id -> the DvzGuiWindow made for the canvas of that id
    events,     \* client: the REQUESTS events enqueued and not yet delivered
    count       \* history of the run (canvases created, ticks, batches skipped)

vars == <<canvases, windows, inflight, surfaces, guis, callbacks, log, hist,
          prt, gui_windows, events, count>>

(***************************************************************************)
(* Bit operations on flags.                                                *)
(***************************************************************************)

RECURSIVE BitAnd(_, _)
BitAnd(a, b) ==
    IF a = 0 \/ b = 0 THEN 0
    ELSE ((a % 2) * (b % 2)) + 2 * BitAnd(a \div 2, b \div 2)

RECURSIVE BitXor(_, _)
BitXor(a, b) ==
    IF a = 0 THEN b
    ELSE IF b = 0 THEN a
    ELSE (((a % 2) + (b % 2)) % 2) + 2 * BitXor(a \div 2, b \div 2)

RECURSIVE BitOr(_, _)
BitOr(a, b) ==
    IF a = 0 THEN b
    ELSE IF b = 0 THEN a
    ELSE (IF (a % 2) + (b % 2) > 0 THEN 1 ELSE 0) + 2 * BitOr(a \div 2, b \div 2)

(***************************************************************************)
(* Objects.                                                                *)
(***************************************************************************)

NoCanvas ==
    [obj |-> "NONE", width |-> 0, height |-> 0, cur_frame |-> 0,
     status |-> "NONE", img_idx |-> 0, frame_time_idx |-> 0,
     sem_img_available |-> [s \in Slots |-> FALSE],
     recorder |-> FALSE, recorder_empty |-> TRUE,
     recorder_dirty |-> [i \in Imgs |-> FALSE],
     surface |-> "NONE", recorder_destroyed |-> FALSE]

NoWindow ==
    [obj |-> "NONE", width |-> 0, height |-> 0,
     framebuffer_width |-> 0, framebuffer_height |-> 0]

NoHist ==
    [first |-> "none", resizes |-> 0, presented |-> FALSE, submitted |-> {},
     fresh |-> [i \in Imgs |-> FALSE], run_start |-> 0, run_len |-> 0,
     blank |-> [i \in Imgs |-> FALSE], flags |-> 0]

\* The state the callbacks transform.
World ==
    [canvases |-> canvases, windows |-> windows, inflight |-> inflight,
     surfaces |-> surfaces, guis |-> guis, callbacks |-> callbacks,
     log |-> log, hist |-> hist, prt |-> prt, gui_windows |-> gui_windows,
     events |-> events, count |-> count]

Commit(w) ==
    /\ canvases' = w.canvases
    /\ windows' = w.windows
    /\ inflight' = w.inflight
    /\ surfaces' = w.surfaces
    /\ guis' = w.guis
    /\ callbacks' = w.callbacks
    /\ log' = w.log
    /\ hist' = w.hist
    /\ prt' = w.prt
    /\ gui_windows' = w.gui_windows
    /\ events' = w.events
    /\ count' = w.count

Emit(w, e) == [w EXCEPT !.log = Append(@, e)]

Min(a, b) == IF a < b THEN a ELSE b

(***************************************************************************)
(* Requests.  A batch is a sequence of requests.                           *)
(***************************************************************************)

CreateFlags == {0, BitOr(DVZ_CANVAS_FLAGS_FPS, DVZ_CANVAS_FLAGS_MONITOR)}

CanvasCreateRequests ==
    {[type |-> "CANVAS", action |-> "CREATE", id |-> id, flags |-> f,
      screen_width |-> sz[1], screen_height |-> sz[2]] :
        id \in FrameIds, f \in CreateFlags, sz \in ScreenSizes}

RecordRequests ==
    {[type |-> "RECORD", action |-> "APPEND", id |-> id, flags |-> 0,
      screen_width |-> 0, screen_height |-> 0] : id \in FrameIds}

Requests == CanvasCreateRequests \cup RecordRequests

Batches == UNION {[1 .. n -> Requests] : n \in 1 .. MaxBatch}

\* The requests of the lifecycle runs: canvas creations with and without a
\* GUI window, and canvas deletions.
LifecycleCreateFlags == CreateFlags \cup {DVZ_CANVAS_FLAGS_IMGUI}

LifecycleSize == CHOOSE sz \in ScreenSizes : ScaleOf(sz) = 1

LifecycleCreateRequests ==
    {[type |-> "CANVAS", action |-> "CREATE", id |-> id, flags |-> f,
      screen_width |-> LifecycleSize[1], screen_height |-> LifecycleSize[2]] :
        id \in FrameIds, f \in LifecycleCreateFlags}

\* The canvas creations of the router runs: one id with a GUI window and the
\* two monitoring overlays, the other id without a GUI window.
RouterCreateFlags ==
    [id \in Ids |-> IF id \in FrameIds
                    THEN BitOr(DVZ_CANVAS_FLAGS_FPS, DVZ_CANVAS_FLAGS_MONITOR)
                    ELSE 0]

RouterCreateRequests ==
    {[type |-> "CANVAS", action |-> "CREATE", id |-> id,
      flags |-> RouterCreateFlags[id],
      screen_width |-> LifecycleSize[1], screen_height |-> LifecycleSize[2]] :
        id \in Ids}

CanvasDeleteRequests ==
    {[type |-> "CANVAS", action |-> "DELETE", id |-> id, flags |-> 0,
      screen_width |-> 0, screen_height |-> 0] : id \in Ids}

CanvasUpdateRequests ==
    {[type |-> "CANVAS", action |-> "UPDATE", id |-> id, flags |-> 0,
      screen_width |-> 0, screen_height |-> 0] : id \in FrameIds}

OtherRequests ==
    {[type |-> "DAT", action |-> "CREATE", id |-> id, flags |-> 0,
      screen_width |-> 0, screen_height |-> 0] : id \in FrameIds}

\* The batches that create or delete one canvas.
LifecycleRequests == LifecycleCreateRequests \cup CanvasDeleteRequests

LifecycleBatches == {<<req>> : req \in LifecycleRequests}

\* The batches handed to dvz_presenter_submit(): any request, and the empty
\* batch too.
RouterRequests ==
    RouterCreateRequests \cup CanvasDeleteRequests \cup CanvasUpdateRequests
        \cup OtherRequests

RouterBatches == UNION {[1 .. n -> RouterRequests] : n \in 0 .. MaxBatch}

(***************************************************************************)
(* The renderer (rd): applies a request to the backend objects.            *)
(***************************************************************************)

\* dvz_renderer_request(): a canvas creation allocates the canvas object of
\* that id; a record request appends a command to the canvas recorder, which
\* marks the command buffer of every image dirty.
dvz_renderer_request(w, req) ==
    IF req.type = "CANVAS" /\ req.action = "CREATE"
    THEN [w EXCEPT !.canvases[req.id] = [NoCanvas EXCEPT !.obj = "INIT"],
                   !.hist[req.id] = NoHist,
                   !.log = Append(@, [op |-> "renderer_request", id |-> req.id,
                                      type |-> req.type, action |-> req.action])]
    ELSE IF req.type = "RECORD"
    THEN [w EXCEPT !.canvases[req.id].recorder_empty = FALSE,
                   !.canvases[req.id].recorder_dirty = [i \in Imgs |-> TRUE],
                   !.hist[req.id].fresh = [i \in Imgs |-> FALSE],
                   !.hist[req.id].blank = [i \in Imgs |-> FALSE],
                   !.log = Append(@, [op |-> "renderer_request", id |-> req.id,
                                      type |-> req.type, action |-> req.action])]
    ELSE Emit(w, [op |-> "renderer_request", id |-> req.id,
                  type |-> req.type, action |-> req.action])

\* What the upstream client guarantees of a request when it is processed:
\* a canvas is created under an id that has no live canvas and no window,
\* with a GUI window only if the presenter has a GUI, and the canvas a
\* request works on is live.
RequestOk(w, req) ==
    IF req.type = "CANVAS" /\ req.action = "CREATE"
    THEN /\ w.canvases[req.id].obj \in {"NONE", "DESTROYED"}
         /\ w.windows[req.id].obj = "NONE"
         /\ BitAnd(req.flags, DVZ_CANVAS_FLAGS_IMGUI) # 0 => w.prt.gui = "CREATED"
         /\ w.count.creates < MaxCreates
    ELSE IF req.type \in {"CANVAS", "RECORD"}
    THEN w.canvases[req.id].obj = "CREATED" /\ w.canvases[req.id].recorder
    ELSE TRUE

(***************************************************************************)
(* _create_canvas()                                                        *)
(***************************************************************************)

\* create_client_window(): the window has the requested screen size; its
\* framebuffer size is set by the platform (scale).
create_client_window(req) ==
    LET scale == ScaleOf(<<req.screen_width, req.screen_height>>)
    IN [obj |-> "CREATED", width |-> req.screen_width, height |-> req.screen_height,
        framebuffer_width |-> scale * req.screen_width,
        framebuffer_height |-> scale * req.screen_height]

\* dvz_canvas_create(): builds the swapchain, the command buffers and the
\* sync objects of the canvas on the surface.
dvz_canvas_create(cv) ==
    [cv EXCEPT !.obj = "CREATED", !.status = "CREATED", !.cur_frame = 0,
               !.img_idx = 0, !.frame_time_idx = 0,
               !.sem_img_available = [s \in Slots |-> FALSE]]

\* dvz_recorder(): an empty recorder, every image dirty.
dvz_recorder(cv) ==
    [cv EXCEPT !.recorder = TRUE, !.recorder_empty = TRUE,
               !.recorder_dirty = [i \in Imgs |-> TRUE]]

\* dvz_presenter_gui(): appends a payload to prt->callbacks.
dvz_presenter_gui(w, window_id, callback, user_data) ==
    [w EXCEPT !.callbacks = Append(@, [window_id |-> window_id,
                                       callback |-> callback,
                                       user_data |-> user_data])]

has_gui(flags) == BitAnd(flags, DVZ_CANVAS_FLAGS_IMGUI) # 0
has_fps(flags) ==
    BitAnd(flags, BitXor(DVZ_CANVAS_FLAGS_FPS, DVZ_CANVAS_FLAGS_IMGUI)) # 0
\* Mutant: the mask without the XOR, which the GUI bit alone satisfies.
has_monitor_NoXor(flags) == BitAnd(flags, DVZ_CANVAS_FLAGS_MONITOR) # 0

has_monitor(flags) ==
    BitAnd(flags, BitXor(DVZ_CANVAS_FLAGS_MONITOR, DVZ_CANVAS_FLAGS_IMGUI)) # 0
has_fullscreen(flags) == BitAnd(flags, DVZ_CANVAS_FLAGS_FULLSCREEN) # 0

\* The flags have the overlay bit and the bits of both monitoring overlays.
OverlayFlags(flags) ==
    LET both == BitOr(DVZ_CANVAS_FLAGS_FPS, DVZ_CANVAS_FLAGS_MONITOR)
    IN BitAnd(flags, both) = both

\* Mutant: _create_canvas() without its last statement.
CreateStatus_Created == "CREATED"

\* The status the swapchain is left in at the end of _create_canvas().
CreateStatus == "NEED_RECREATE"

_create_canvas(w, req) ==
    LET window == create_client_window(req)
        cv0 == [w.canvases[req.id] EXCEPT
                    !.width = window.framebuffer_width,
                    !.height = window.framebuffer_height,
                    !.surface = "CREATED"]
        cv1 == dvz_recorder(dvz_canvas_create(cv0))
        cv2 == [cv1 EXCEPT !.status = CreateStatus]
        w1 == [w EXCEPT !.windows[req.id] = window,
                        !.canvases[req.id] = cv2,
                        !.surfaces = Append(@, req.id),
                        !.count.creates = @ + 1,
                        !.count.overlays[req.id] =
                            IF OverlayFlags(req.flags) THEN @ + 1 ELSE @,
                        !.hist[req.id].flags = req.flags,
                        !.log = Append(@, [op |-> "create_canvas", id |-> req.id])]
        w2 == IF has_gui(req.flags)
              THEN [w1 EXCEPT !.guis = @ \cup {req.id},
                              !.gui_windows[req.id] = "CREATED"]
              ELSE w1
        w3 == IF has_fps(req.flags)
              THEN dvz_presenter_gui(w2, req.id, "_gui_callback_fps", "prt->fps")
              ELSE w2
        w4 == IF has_monitor(req.flags)
              THEN dvz_presenter_gui(w3, req.id, "_gui_callback_monitoring",
                                     "rd->ctx->datalloc")
              ELSE w3
    IN w4

(***************************************************************************)
(* _delete_canvas()                                                        *)
(***************************************************************************)

\* dvz_gpu_wait(): returns once the device is idle.
dvz_gpu_wait(w) ==
    [w EXCEPT !.inflight = [i \in Ids |-> <<>>],
              !.log = Append(@, [op |-> "gpu_wait",
                                 busy |-> \E i \in Ids : w.inflight[i] # <<>>])]

\* dvz_canvas_destroy(): destroys the swapchain, the command buffers and the
\* sync objects of the canvas.
dvz_canvas_destroy(w, id) ==
    [w EXCEPT !.canvases[id].obj = "DESTROYED",
              !.log = Append(@, [op |-> "canvas_destroy", id |-> id,
                                 again |-> w.canvases[id].obj = "DESTROYED"])]

\* dvz_recorder_destroy(): frees the recorder (canvas->recorder keeps the
\* pointer).
dvz_recorder_destroy(w, id) ==
    [w EXCEPT !.canvases[id].recorder_destroyed = TRUE,
              !.log = Append(@, [op |-> "recorder_destroy", id |-> id,
                                 again |-> w.canvases[id].recorder_destroyed])]

\* dvz_surface_destroy()
dvz_surface_destroy(w, id) ==
    [w EXCEPT !.canvases[id].surface = "DESTROYED",
              !.log = Append(@, [op |-> "surface_destroy", id |-> id,
                                 again |-> w.canvases[id].surface = "DESTROYED"])]

\* dvz_gui_window_destroy()
dvz_gui_window_destroy(w, id) ==
    [w EXCEPT !.gui_windows[id] = "DESTROYED",
              !.log = Append(@, [op |-> "gui_window_destroy", id |-> id,
                                 again |-> w.gui_windows[id] = "DESTROYED"])]

\* Mutant: the surface stays in the list.
UntrackSurface_Keep(list, id) == list

\* dvz_list_remove_pointer(prt->surfaces, &canvas->surface)
UntrackSurface(list, id) ==
    LET Other(x) == x # id IN SelectSeq(list, Other)

\* Mutant: the surface is destroyed before the canvas (and its swapchain).
_delete_canvas_SurfaceFirst(w, id) ==
    LET w1 == dvz_gpu_wait(Emit(w, [op |-> "delete_canvas", id |-> id]))
        w2 == Emit([w1 EXCEPT !.surfaces = UntrackSurface(@, id)],
                   [op |-> "list_remove_pointer", id |-> id])
        w3 == dvz_canvas_destroy(dvz_surface_destroy(w2, id), id)
        w4 == IF w3.canvases[id].recorder THEN dvz_recorder_destroy(w3, id) ELSE w3
    IN IF id \in w4.guis THEN dvz_gui_window_destroy(w4, id) ELSE w4

\* Mutant: the canvas is destroyed without waiting for the device.
_delete_canvas_NoWait(w, id) ==
    LET w1 == Emit(Emit(w, [op |-> "delete_canvas", id |-> id]),
                   [op |-> "gpu_wait", busy |-> FALSE])
        w2 == dvz_canvas_destroy(w1, id)
        w3 == IF w2.canvases[id].recorder THEN dvz_recorder_destroy(w2, id) ELSE w2
        w4 == Emit([w3 EXCEPT !.surfaces = UntrackSurface(@, id)],
                   [op |-> "list_remove_pointer", id |-> id])
        w5 == dvz_surface_destroy(w4, id)
    IN IF id \in w5.guis THEN dvz_gui_window_destroy(w5, id) ELSE w5

_delete_canvas(w, id) ==
    LET w1 == dvz_gpu_wait(Emit(w, [op |-> "delete_canvas", id |-> id]))
        w2 == dvz_canvas_destroy(w1, id)
        w3 == IF w2.canvases[id].recorder THEN dvz_recorder_destroy(w2, id) ELSE w2
        w4 == Emit([w3 EXCEPT !.surfaces = UntrackSurface(@, id)],
                   [op |-> "list_remove_pointer", id |-> id])
        w5 == dvz_surface_destroy(w4, id)
    IN IF id \in w5.guis THEN dvz_gui_window_destroy(w5, id) ELSE w5

(***************************************************************************)
(* _canvas_request() and _requester_callback()                             *)
(***************************************************************************)

_canvas_request(w, req) ==
    IF req.action = "CREATE" THEN _create_canvas(w, req)
    ELSE IF req.action = "DELETE" THEN _delete_canvas(w, req.id)
    ELSE w

\* Mutant: the lifecycle manager runs before the renderer has the request.
RouteRequest_LifecycleFirst(w, req) ==
    dvz_renderer_request(IF req.type = "CANVAS" THEN _canvas_request(w, req) ELSE w,
                         req)

\* One iteration of the loop of _requester_callback().
RouteRequest(w, req) ==
    LET w1 == dvz_renderer_request(w, req)
    IN IF req.type = "CANVAS" THEN _canvas_request(w1, req) ELSE w1

RECURSIVE RouteAll(_, _)
RouteAll(w, reqs) ==
    IF reqs = <<>> THEN w
    ELSE RouteAll(RouteRequest(w, Head(reqs)), Tail(reqs))

RECURSIVE BatchOk(_, _)
BatchOk(w, reqs) ==
    IF reqs = <<>> THEN TRUE
    ELSE /\ RequestOk(w, Head(reqs))
         /\ BatchOk(RouteRequest(w, Head(reqs)), Tail(reqs))

_requester_callback(w, batch) ==
    Emit(RouteAll([w EXCEPT !.log = <<[op |-> "requests", batch |-> batch]>>], batch),
         [op |-> "batch_destroy", batch |-> batch])

(***************************************************************************)
(* Synchronization and swapchain primitives used by the frame driver.      *)
(***************************************************************************)

\* dvz_fences_wait(): returns once the last submission that signals the
\* fence of `slot` has completed (at once if the slot has none in flight).
dvz_fences_wait(w, id, slot) ==
    LET q == w.inflight[id]
        at == {k \in 1 .. Len(q) : q[k] = slot}
        last == IF at = {} THEN 0 ELSE CHOOSE k \in at : \A j \in at : j <= k
    IN [w EXCEPT !.inflight[id] = SubSeq(q, last + 1, Len(q)),
                 !.log = Append(@, [op |-> "fences_wait", id |-> id, slot |-> slot,
                                    issued |-> slot \in w.hist[id].submitted,
                                    nsub |-> Cardinality(w.hist[id].submitted)])]

\* dvz_swapchain_acquire(): asks for the next image, to be signaled on the
\* image-available semaphore of `slot`.  An image is handed out (and the
\* semaphore signaled) on SUCCESS and SUBOPTIMAL; the status is left as it
\* is on SUCCESS, becomes NEED_RECREATE on SUBOPTIMAL and OUT_OF_DATE, and
\* INVALID on any other outcome.
dvz_swapchain_acquire(w, id, slot, res, img) ==
    LET cv == w.canvases[id]
        got == res \in {"SUCCESS", "SUBOPTIMAL"}
        cv1 == [cv EXCEPT
                   !.img_idx = IF got THEN img ELSE @,
                   !.status = IF res = "SUCCESS" THEN @
                              ELSE IF res \in {"SUBOPTIMAL", "OUT_OF_DATE"}
                              THEN "NEED_RECREATE"
                              ELSE "INVALID",
                   !.sem_img_available[slot] = IF got THEN TRUE ELSE @]
    IN [w EXCEPT !.canvases[id] = cv1,
                 !.log = Append(@, [op |-> "swapchain_acquire", id |-> id,
                                    slot |-> slot, img_idx |-> cv1.img_idx,
                                    signaled |-> got,
                                    pending |-> got /\ cv.sem_img_available[slot]])]

\* dvz_window_poll_size(): the window system's current size of the window.
dvz_window_poll_size(w, id, sz) ==
    [w EXCEPT !.windows[id].width = sz[1],
              !.windows[id].height = sz[2],
              !.windows[id].framebuffer_width = ScaleOf(sz) * sz[1],
              !.windows[id].framebuffer_height = ScaleOf(sz) * sz[2],
              !.log = Append(@, [op |-> "window_poll_size", id |-> id])]

\* dvz_canvas_recreate(): rebuilds the swapchain and the framebuffers at the
\* window's framebuffer size; the command buffers recorded before refer to
\* the framebuffers that were destroyed.
dvz_canvas_recreate(w, id) ==
    [w EXCEPT !.canvases[id].width = w.windows[id].framebuffer_width,
              !.canvases[id].height = w.windows[id].framebuffer_height,
              !.canvases[id].status = "CREATED",
              !.hist[id].fresh = [i \in Imgs |-> FALSE],
              !.hist[id].blank = [i \in Imgs |-> FALSE],
              !.log = Append(@, [op |-> "canvas_recreate", id |-> id])]

\* dvz_semaphores_recreate(sem_img_available)
dvz_semaphores_recreate(w, id) ==
    [w EXCEPT !.canvases[id].sem_img_available = [s \in Slots |-> FALSE],
              !.log = Append(@, [op |-> "semaphores_recreate", id |-> id])]

\* dvz_recorder_set_dirty()
dvz_recorder_set_dirty(w, id) ==
    [w EXCEPT !.canvases[id].recorder_dirty = [i \in Imgs |-> TRUE],
              !.log = Append(@, [op |-> "recorder_set_dirty", id |-> id])]

(***************************************************************************)
(* _record_command()                                                       *)
(***************************************************************************)

\* dvz_recorder_set(): replays the recorder's commands into the command
\* buffer of the image and clears the dirty bit of the image.
dvz_recorder_set(w, id, img) ==
    [w EXCEPT !.canvases[id].recorder_dirty[img] = FALSE,
              !.hist[id].fresh[img] = TRUE,
              !.log = Append(@, [op |-> "recorder_set", id |-> id, img_idx |-> img])]

\* Mutant: the blank pass is never recorded.
RecordsBlank_Never(cv) == FALSE

\* The else branch of `canvas->recorder->count > 0`.
RecordsBlank(cv) == cv.recorder_empty

\* Resets the command buffer of the image, fills it with the blank pass when
\* the recorder is empty, and lets the recorder refill it.
_record_command(w, id, img) ==
    LET cv == w.canvases[id]
        w1 == Emit(w, [op |-> "record_command", id |-> id, img_idx |-> img,
                       was_dirty |-> cv.recorder_dirty[img],
                       blank |-> RecordsBlank(cv)])
        w2 == [w1 EXCEPT !.hist[id].blank[img] = FALSE,
                         !.log = Append(@, [op |-> "cmd_reset", id |-> id,
                                            img_idx |-> img])]
        w3 == IF RecordsBlank(cv)
              THEN [w2 EXCEPT !.hist[id].blank[img] = TRUE,
                              !.log = Append(@, [op |-> "blank_commands", id |-> id,
                                                 img_idx |-> img])]
              ELSE w2
    IN dvz_recorder_set(w3, id, img)

RECURSIVE RecordFrom(_, _, _, _)
RecordFrom(w, id, i, n) ==
    IF i < n THEN RecordFrom(_record_command(w, id, i), id, i + 1, n) ELSE w

(***************************************************************************)
(* _gui_callback()                                                         *)
(***************************************************************************)

\* Mutant: every callback of the list is called.
Targets_Any(payload, gui_window_id) == TRUE

\* payload->window_id == gui_window->obj.id
Targets(payload, gui_window_id) == payload.window_id = gui_window_id

RECURSIVE CallFrom(_, _, _)
CallFrom(w, id, i) ==
    IF i > Len(w.callbacks) THEN w
    ELSE IF Targets(w.callbacks[i], id)
    THEN CallFrom(Emit(w, [op |-> "gui_callback", id |-> id, index |-> i,
                           gui_window |-> id,
                           callback |-> w.callbacks[i].callback,
                           user_data |-> w.callbacks[i].user_data]), id, i + 1)
    ELSE CallFrom(w, id, i + 1)

_gui_callback(w, id, img) ==
    LET w1 == Emit(w, [op |-> "gui_window_begin", id |-> id, img_idx |-> img,
                       live |-> w.gui_windows[id] = "CREATED"])
        w2 == CallFrom(w1, id, 1)
        w3 == Emit(w2, [op |-> "gui_window_end", id |-> id, img_idx |-> img])
    IN Emit(w3, [op |-> "submit_commands", id |-> id, cmds |-> "gui"])

(***************************************************************************)
(* dvz_presenter_frame(): one tick of the frame driver for a window.       *)
(***************************************************************************)

\* Mutant: the wait on the current slot (the statement commented out).
FenceWaitSlot_Current(cv) == cv.cur_frame

\* The slot whose fence the tick waits for.
FenceWaitSlot(cv) == (cv.cur_frame + 1) % DVZ_MAX_FRAMES_IN_FLIGHT

\* Mutants: cur_frame is not advanced; cur_frame is advanced without the modulo.
NextFrame_Stuck(cv) == cv.cur_frame
NextFrame_NoWrap(cv) == cv.cur_frame + 1

\* The value of cur_frame after a submission.
NextFrame(cv) == (cv.cur_frame + 1) % DVZ_MAX_FRAMES_IN_FLIGHT

\* Mutants: the command buffer is refilled at every frame; at no frame.
NeedsRecord_Always(cv, img) == TRUE
NeedsRecord_Never(cv, img) == FALSE

\* dvz_recorder_is_dirty(recorder, img_idx)
NeedsRecord(cv, img) == cv.recorder_dirty[img]

\* Mutant: the recreation branch refills the first command buffer only.
RecreateRecordCount_One(cv) == 1

\* cmds->count: the bound of the re-recording loop of the recreation branch.
RecreateRecordCount(cv) == ImgCount

\* Mutant: the event carries the canvas size as the screen size too.
ResizeEvent_CanvasSize(id, cv, window) ==
    [op |-> "client_event", type |-> "WINDOW_RESIZE", window_id |-> id,
     framebuffer_width |-> cv.width, framebuffer_height |-> cv.height,
     screen_width |-> cv.width, screen_height |-> cv.height]

\* The WINDOW_RESIZE event of the recreation branch.
ResizeEvent(id, cv, window) ==
    [op |-> "client_event", type |-> "WINDOW_RESIZE", window_id |-> id,
     framebuffer_width |-> cv.width, framebuffer_height |-> cv.height,
     screen_width |-> window.width, screen_height |-> window.height]

\* Mutant: the frame slot is passed instead of the image index.
TransfersFrameIdx_Slot(cv) == cv.cur_frame

\* The image index passed to dvz_transfers_frame().
TransfersFrameIdx(cv) == cv.img_idx

\* Mutant: the tick gives the frame up and moves on to the next slot.
FrameInvalid_Advance(w, id) ==
    [dvz_gpu_wait(w) EXCEPT
        !.canvases[id].cur_frame = (@ + 1) % DVZ_MAX_FRAMES_IN_FLIGHT]

\* Mutant: the tick returns without waiting for the device.
FrameInvalid_NoWait(w, id) == w

\* The branch taken for status INVALID.
FrameInvalid(w, id) == dvz_gpu_wait(w)

\* The branch taken for status NEED_RECREATE.
FrameRecreate(w, id, sz) ==
    LET w1 == dvz_gpu_wait(w)
        w2 == dvz_window_poll_size(w1, id, sz)
        w3 == dvz_canvas_recreate(w2, id)
        w4 == dvz_semaphores_recreate(w3, id)
        w5 == IF id \in w4.guis
              THEN Emit(w4, [op |-> "gui_window_resize", id |-> id,
                             live |-> w4.gui_windows[id] = "CREATED",
                             width |-> w4.canvases[id].width,
                             height |-> w4.canvases[id].height])
              ELSE w4
        w6 == Emit(w5, ResizeEvent(id, w5.canvases[id], w5.windows[id]))
        w7 == dvz_recorder_set_dirty(w6, id)
    IN RecordFrom(w7, id, 0, RecreateRecordCount(w7.canvases[id]))

\* dvz_submit_send() followed by dvz_swapchain_present() and the advance of
\* cur_frame.  The submission waits on the image-available semaphore of
\* cur_frame and signals the fence of cur_frame.
FrameSubmit(w, id, buffers) ==
    LET cv == w.canvases[id]
        s == cv.cur_frame
        w1 == [w EXCEPT
                 !.inflight[id] = Append(@, s),
                 !.canvases[id].sem_img_available[s] = FALSE,
                 !.hist[id].submitted = @ \cup {s},
                 !.log = Append(@, [op |-> "submit_send", id |-> id,
                            img_idx |-> cv.img_idx, slot |-> s,
                            wait_semaphore |-> s, signal_semaphore |-> s,
                            buffers |-> buffers,
                            busy |-> \E k \in 1 .. Len(w.inflight[id]) :
                                        w.inflight[id][k] = s,
                            again |-> s \in w.hist[id].submitted,
                            dirty |-> cv.recorder_dirty[cv.img_idx],
                            fresh |-> w.hist[id].fresh[cv.img_idx],
                            empty |-> cv.recorder_empty,
                            blank |-> w.hist[id].blank[cv.img_idx]])]
        w2 == [w1 EXCEPT
                 !.hist[id].presented = TRUE,
                 !.log = Append(@, [op |-> "swapchain_present", id |-> id,
                                    img_idx |-> cv.img_idx, wait_semaphore |-> s])]
    IN [w2 EXCEPT !.canvases[id].cur_frame = NextFrame(cv)]

\* The branch taken otherwise.
FrameReady(w, id) ==
    LET cv == w.canvases[id]
        img == cv.img_idx
        fidx == cv.frame_time_idx % DVZ_MAX_TIMESTAMPS
        \* frame_time_idx is kept modulo the capacity of the ring
        w1 == [w EXCEPT
                 !.canvases[id].frame_time_idx = (@ + 1) % DVZ_MAX_TIMESTAMPS,
                 !.log = Append(@, [op |-> "time", id |-> id, fidx |-> fidx])]
        w2 == Emit(w1, [op |-> "fences_copy", id |-> id,
                        slot |-> cv.cur_frame, img_idx |-> img])
        w3 == IF NeedsRecord(w2.canvases[id], img)
              THEN _record_command(w2, id, img)
              ELSE w2
        w4 == Emit(Emit(w3, [op |-> "submit_reset", id |-> id]),
                   [op |-> "submit_commands", id |-> id, cmds |-> "cmds"])
        gui == id \in w4.guis /\ Len(w4.callbacks) > 0
        w5 == IF gui THEN _gui_callback(w4, id, img) ELSE w4
    IN FrameSubmit(w5, id, IF gui THEN <<"cmds", "gui">> ELSE <<"cmds">>)

\* Bookkeeping of the history of the canvas at the end of a tick.
FrameHist(w, id, branch, before) ==
    LET h == w.hist[id]
        ready == branch = "ready"
        restart == ~ready \/ h.run_len >= MaxRun
    IN [w EXCEPT
          !.hist[id].first = IF @ = "none" THEN branch ELSE @,
          !.hist[id].resizes =
              IF branch = "recreate" /\ ~h.presented THEN Min(@ + 1, MaxResizes) ELSE @,
          !.hist[id].run_start =
              IF ~ready THEN w.canvases[id].cur_frame
              ELSE IF restart THEN before.cur_frame ELSE @,
          !.hist[id].run_len =
              IF ~ready THEN 0 ELSE IF restart THEN 1 ELSE @ + 1]

dvz_presenter_frame(w, id, res, img, sz) ==
    LET before == w.canvases[id]
        w0 == [w EXCEPT !.log = <<[op |-> "frame", id |-> id,
                                   cur_frame |-> before.cur_frame,
                                   canvas |-> before.obj,
                                   recorder_destroyed |->
                                       before.recorder_destroyed]>>]
        w1 == dvz_fences_wait(w0, id, FenceWaitSlot(before))
        wa == dvz_swapchain_acquire(w1, id, before.cur_frame, res, img)
        status == wa.canvases[id].status
        w2 == Emit(wa, [op |-> "status", id |-> id, status |-> status])
    IN IF status = "INVALID"
       THEN FrameHist(FrameInvalid(w2, id), id, "invalid", before)
       ELSE LET w3 == IF status = "NEED_RECREATE"
                      THEN FrameRecreate(w2, id, sz)
                      ELSE FrameReady(w2, id)
                w4 == Emit(w3, [op |-> "transfers_frame", id |-> id,
                                img_idx |-> TransfersFrameIdx(w3.canvases[id])])
            IN FrameHist(w4, id,
                         IF status = "NEED_RECREATE" THEN "recreate" ELSE "ready",
                         before)

(***************************************************************************)
(* The state machine.                                                      *)
(***************************************************************************)

\* The flags a presenter is made with.
PresenterFlags == {0, DVZ_CANVAS_FLAGS_IMGUI}

\* dvz_presenter(): the GUI instance is created if the flags ask for it.
dvz_presenter(flags) ==
    [obj |-> "CREATED", flags |-> flags,
     gui |-> IF BitAnd(flags, DVZ_CANVAS_FLAGS_IMGUI) # 0 THEN "CREATED" ELSE "NONE"]

Init ==
    /\ canvases = [id \in Ids |-> NoCanvas]
    /\ windows = [id \in Ids |-> NoWindow]
    /\ inflight = [id \in Ids |-> <<>>]
    /\ surfaces = <<>>
    /\ guis = {}
    /\ callbacks = <<>>
    /\ log = <<>>
    /\ hist = [id \in Ids |-> NoHist]
    /\ prt \in {dvz_presenter(flags) : flags \in PresenterFlags}
    /\ gui_windows = [id \in Ids |-> "NONE"]
    /\ events = <<>>
    /\ count = [creates |-> 0, overlays |-> [id \in Ids |-> 0], registered |-> 0,
                skipped |-> FALSE, ticks |-> 0]

\* The client delivers a REQUESTS event: _requester_callback().
RequesterCallback ==
    \E batch \in Batches :
        /\ prt.obj = "CREATED"
        /\ BatchOk(World, batch)
        /\ Commit(_requester_callback(World, batch))

\* The inputs of a tick that the tick reads: the image index is read when an
\* image is handed out, the polled size when the swapchain is recreated
\* (otherwise they are given as what the canvas and the window hold).
FrameInputs(id, res, img, sz) ==
    /\ res \in {"SUCCESS", "SUBOPTIMAL"} \/ img = canvases[id].img_idx
    /\ \/ res \in {"SUBOPTIMAL", "OUT_OF_DATE"}
       \/ res = "SUCCESS" /\ canvases[id].status = "NEED_RECREATE"
       \/ sz = <<windows[id].width, windows[id].height>>

\* The client delivers a FRAME event for a live window: _frame_callback().
FrameCallback ==
    \E id \in Ids, res \in AcquireResults, img \in Imgs, sz \in ScreenSizes :
        /\ prt.obj = "CREATED"
        /\ windows[id].obj = "CREATED"
        /\ canvases[id].obj = "CREATED"
        /\ canvases[id].recorder
        /\ FrameInputs(id, res, img, sz)
        /\ Commit(dvz_presenter_frame(World, id, res, img, sz))

\* The GPU completes the oldest submission of a canvas and signals its fence.
GpuComplete ==
    \E id \in Ids :
        /\ inflight[id] # <<>>
        /\ inflight' = [inflight EXCEPT ![id] = Tail(@)]
        /\ UNCHANGED <<canvases, windows, surfaces, guis, callbacks, log, hist,
                       prt, gui_windows, events, count>>

Next == RequesterCallback \/ FrameCallback \/ GpuComplete

Spec == Init /\ [][Next]_vars

(***************************************************************************)
(* The lifecycle: batches handed to dvz_presenter_submit() and delivered   *)
(* by the client's event loop, windows closed by the user, overlay         *)
(* callbacks registered by the user, and the destruction of the presenter. *)
(***************************************************************************)

\* The ids an overlay callback may be registered for (window_id != 0).
CallbackIds == Ids

\* dvz_presenter_submit(): an empty batch is skipped, any other batch is
\* enqueued as a REQUESTS event of the client.
dvz_presenter_submit(w, batch) ==
    IF Len(batch) = 0
    THEN [w EXCEPT !.count.skipped = TRUE,
                   !.log = <<[op |-> "presenter_submit", batch |-> batch]>>]
    ELSE [w EXCEPT !.events = Append(@, batch),
                   !.log = <<[op |-> "presenter_submit", batch |-> batch],
                             [op |-> "client_event", type |-> "REQUESTS",
                              batch |-> batch]>>]

\* _delete_callback(), followed by the client's own callback of the
\* WINDOW_DELETE event, which destroys the window.
_delete_callback(w, window_id) ==
    LET w1 == _delete_canvas([w EXCEPT !.log = <<[op |-> "window_delete",
                                                  id |-> window_id]>>], window_id)
    IN [w1 EXCEPT !.windows[window_id] = NoWindow]

\* dvz_presenter_destroy(): destroys the map of GUI windows, the GUI (and,
\* with it, its GUI windows), frees every callback payload, destroys the
\* two lists and frees the presenter.
dvz_presenter_destroy(w) ==
    LET n == Len(w.callbacks)
        gui == w.prt.gui # "NONE"
    IN [w EXCEPT
          !.guis = {},
          !.prt.gui = IF gui THEN "DESTROYED" ELSE @,
          !.gui_windows = [id \in Ids |->
                              IF gui /\ w.gui_windows[id] = "CREATED"
                              THEN "DESTROYED" ELSE w.gui_windows[id]],
          !.callbacks = <<>>,
          !.surfaces = <<>>,
          !.prt.obj = "DESTROYED",
          !.log = <<[op |-> "presenter_destroy"], [op |-> "map_destroy"]>>
                  \o (IF gui THEN <<[op |-> "gui_destroy"]>> ELSE <<>>)
                  \o [i \in 1 .. n |-> [op |-> "free", index |-> i]]
                  \o <<[op |-> "list_destroy", list |-> "callbacks", count |-> n],
                        [op |-> "list_destroy", list |-> "surfaces",
                         count |-> Len(w.surfaces)],
                        [op |-> "fps_destroy"], [op |-> "free_presenter"]>>]

\* The application hands a batch to dvz_presenter_submit(), once the batch
\* it handed over before has been delivered.
PresenterSubmit ==
    \E batch \in RouterBatches :
        /\ prt.obj = "CREATED"
        /\ events = <<>>
        /\ BatchOk(World, batch)
        /\ Commit(dvz_presenter_submit(World, batch))

\* The client's event loop delivers the oldest REQUESTS event.
ClientRequests ==
    /\ prt.obj = "CREATED"
    /\ events # <<>>
    /\ BatchOk(World, Head(events))
    /\ Commit(_requester_callback([World EXCEPT !.events = Tail(@)], Head(events)))

\* The client delivers a REQUESTS event with a batch of lifecycle requests.
LifecycleRequesterCallback ==
    \E batch \in LifecycleBatches :
        /\ prt.obj = "CREATED"
        /\ BatchOk(World, batch)
        /\ Commit(_requester_callback(World, batch))

\* The acquisitions of the lifecycle runs: one that submits the frame and one
\* that does not.
LifecycleResults == {"SUCCESS", "OUT_OF_DATE"}

\* The client delivers a FRAME event for a live window (the user does not
\* resize the windows of these runs, and the swapchain hands out its images
\* in turn).
LifecycleFrame ==
    \E id \in Ids, res \in LifecycleResults, img \in Imgs, sz \in {LifecycleSize} :
        /\ prt.obj = "CREATED"
        /\ windows[id].obj = "CREATED"
        /\ canvases[id].obj = "CREATED"
        /\ canvases[id].recorder
        /\ count.ticks < MaxTicks
        /\ FrameInputs(id, res, img, sz)
        /\ res \in {"SUCCESS", "SUBOPTIMAL"}
              => img = (canvases[id].img_idx + 1) % ImgCount
        /\ Commit(dvz_presenter_frame([World EXCEPT !.count.ticks = @ + 1],
                                      id, res, img, sz))

\* The user closes a window: the client delivers a WINDOW_DELETE event.
DeleteCallback ==
    \E id \in Ids :
        /\ prt.obj = "CREATED"
        /\ windows[id].obj = "CREATED"
        /\ Commit(_delete_callback(World, id))

\* The application registers an overlay callback, with its own user data.
PresenterGui ==
    \E window_id \in CallbackIds :
        /\ prt.obj = "CREATED"
        /\ count.registered < MaxUserCallbacks
        /\ Commit(dvz_presenter_gui(
               [World EXCEPT !.count.registered = @ + 1,
                             !.log = <<[op |-> "presenter_gui",
                                        window_id |-> window_id]>>],
               window_id, "user_callback", count.registered + 1))

\* The application destroys the presenter.
PresenterDestroy ==
    /\ prt.obj = "CREATED"
    /\ Commit(dvz_presenter_destroy(World))

LifecycleNext ==
    \/ LifecycleRequesterCallback
    \/ LifecycleFrame
    \/ GpuComplete
    \/ DeleteCallback
    \/ PresenterGui

\* Canvases created, drawn, deleted and created again, with overlays.
LifecycleSpec == Init /\ [][LifecycleNext]_vars

RouterNext ==
    \/ PresenterSubmit
    \/ ClientRequests
    \/ DeleteCallback
    \/ PresenterDestroy

\* Batches on their way from the application to the renderer.
RouterSpec == Init /\ [][RouterNext]_vars

(***************************************************************************)
(* Ticks for any id: the client delivers a FRAME event for every window it *)
(* has, and dvz_presenter_frame() resolves the window, the canvas and the  *)
(* recorder of the id before anything else.                                *)
(***************************************************************************)

\* The three lookups at the start of dvz_presenter_frame() return an object:
\* the client has the window, the renderer has a canvas under the id (one
\* that _delete_canvas() destroyed is still there), and canvas->recorder is
\* not NULL (_delete_canvas() does not reset it).
FrameResolves(w, id) ==
    /\ w.windows[id].obj = "CREATED"
    /\ w.canvases[id].obj # "NONE"
    /\ w.canvases[id].recorder

\* ANN() on a NULL pointer: the process stops.
FrameAbort(w, id) ==
    [w EXCEPT !.prt.obj = "ABORTED",
              !.log = <<[op |-> "frame", id |-> id,
                         cur_frame |-> w.canvases[id].cur_frame,
                         canvas |-> w.canvases[id].obj,
                         recorder_destroyed |-> w.canvases[id].recorder_destroyed],
                        [op |-> "abort", id |-> id]>>]

\* The tick passes the lookups with a canvas that _delete_canvas() has
\* destroyed, waits on a destroyed fence, and the process stops there.
FrameCrash(w, id) ==
    LET cv == w.canvases[id]
        w0 == [w EXCEPT !.log = <<[op |-> "frame", id |-> id,
                                   cur_frame |-> cv.cur_frame,
                                   canvas |-> cv.obj,
                                   recorder_destroyed |-> cv.recorder_destroyed]>>]
        w1 == dvz_fences_wait(w0, id, FenceWaitSlot(cv))
    IN [Emit(w1, [op |-> "abort", id |-> id]) EXCEPT !.prt.obj = "ABORTED"]

\* dvz_presenter_frame() is called for an id.  When a lookup fails the tick
\* aborts.  When the lookups return a canvas that _delete_canvas() has
\* destroyed, the tick works on freed objects: the process may stop at the
\* first use of one, or go on as for a live canvas.
PresenterFrame ==
    \E id \in Ids, res \in LifecycleResults, img \in Imgs, stop \in BOOLEAN :
        /\ prt.obj = "CREATED"
        /\ count.ticks < MaxTicks
        /\ FrameInputs(id, res, img, LifecycleSize)
        /\ LET w == [World EXCEPT !.count.ticks = @ + 1]
           IN IF ~FrameResolves(w, id)
              THEN stop /\ Commit(FrameAbort(w, id))
              ELSE IF w.canvases[id].obj = "CREATED"
              THEN ~stop /\ Commit(dvz_presenter_frame(w, id, res, img, LifecycleSize))
              ELSE Commit(IF stop THEN FrameCrash(w, id)
                          ELSE dvz_presenter_frame(w, id, res, img, LifecycleSize))

ContractNext ==
    \/ LifecycleRequesterCallback
    \/ DeleteCallback
    \/ PresenterFrame
    \/ GpuComplete

\* Canvases created and deleted, by request and by closing the window, and
\* ticks for ids with and without a live canvas.
ContractSpec == Init /\ [][ContractNext]_vars

FlightNext ==
    \/ LifecycleRequesterCallback
    \/ FrameCallback
    \/ GpuComplete
    \/ DeleteCallback

\* Ticks of live canvases, completions of the GPU, and deletions.
FlightSpec == Init /\ [][FlightNext]_vars

(***************************************************************************)
(* Reading the log of the most recent callback.                            *)
(***************************************************************************)

\* The positions of the log that hold a call of `op`.
Calls(op) == {k \in 1 .. Len(log) : log[k].op = op}

\* The most recent callback was a tick of the frame driver.
IsTick == log # <<>> /\ log[1].op = "frame"

\* The window of that tick, and the status it read after the acquisition.
TickId == log[1].id
TickStatus == log[CHOOSE k \in Calls("status") : TRUE].status

(***************************************************************************)
(* Properties.                                                             *)
(***************************************************************************)

\* C1: a submission that signals the frame-finished fence of slot s is never
\* issued while an earlier submission on slot s is still in flight (its fence
\* not yet signaled), and the only CPU wait of the tick before the submission
\* is the fence wait on slot (cur_frame + 1) mod in_flight_count.
C1_NoSubmitOnBusySlot ==
    \A k \in Calls("submit_send") :
        /\ ~log[k].busy
        /\ Cardinality({j \in Calls("fences_wait") : j < k}) = 1
        /\ \A j \in Calls("fences_wait") :
              j < k => log[j].slot = (log[k].slot + 1) % DVZ_MAX_FRAMES_IN_FLIGHT
        /\ \A j \in Calls("gpu_wait") : j > k

\* A submission on a slot that has been submitted before.
C1_Witness == \E k \in Calls("submit_send") : log[k].again

\* C2: the image-available semaphore of a slot is never signaled again by an
\* acquisition while its previous signal is still pending, that is before a
\* submission that waits on it has been queued (a recreation of the
\* semaphores clears the pending signal).
C2_SemaphoreNotResignaled ==
    \A k \in Calls("swapchain_acquire") : ~log[k].pending

\* C3 (as stated): every tick, whichever branch it takes, notifies the
\* transfer subsystem exactly once with the swapchain's image index.
C3_NotifiesInEveryBranch ==
    IsTick =>
        /\ Cardinality(Calls("transfers_frame")) = 1
        /\ \A k \in Calls("transfers_frame") :
              log[k].img_idx = canvases[TickId].img_idx

\* C3 (amended): a tick that reads status NEED_RECREATE or CREATED notifies
\* the transfer subsystem exactly once, as its last call, with the image
\* index the swapchain holds after the tick's acquisition; a tick that reads
\* status INVALID returns without notifying it.
C3_NotifiesUnlessInvalid ==
    IsTick =>
        IF TickStatus = "INVALID"
        THEN Calls("transfers_frame") = {}
        ELSE /\ Calls("transfers_frame") = {Len(log)}
             /\ log[Len(log)].img_idx = canvases[TickId].img_idx
             /\ \A k \in Calls("swapchain_acquire") :
                   log[k].img_idx = log[Len(log)].img_idx

\* A tick of the Ready branch that notified image 1 while the frame slot moved to 0.
C3_Witness ==
    /\ IsTick
    /\ TickStatus = "CREATED"
    /\ log[Len(log)].op = "transfers_frame"
    /\ log[Len(log)].img_idx = 1
    /\ canvases[TickId].cur_frame = 0

\* C4: the current-frame index is always in 0 .. in_flight_count - 1, and
\* after k consecutive ticks of the Ready branch it is (initial + k) mod
\* in_flight_count, so that it is back at its initial value exactly when k is
\* a multiple of in_flight_count.
C4_FrameIndexCycles ==
    \A id \in Ids :
        /\ canvases[id].cur_frame \in Slots
        /\ canvases[id].obj = "CREATED" =>
              /\ canvases[id].cur_frame =
                    (hist[id].run_start + hist[id].run_len) % DVZ_MAX_FRAMES_IN_FLIGHT
              /\ (canvases[id].cur_frame = hist[id].run_start) <=>
                    (hist[id].run_len % DVZ_MAX_FRAMES_IN_FLIGHT = 0)

\* More than a full period of consecutive Ready ticks.
C4_Witness ==
    \E id \in Ids : hist[id].run_len > DVZ_MAX_FRAMES_IN_FLIGHT

\* C5 (as stated): the fence a tick blocks on has had a submission issued on
\* its slot before the wait, also in the first ticks after Create.
C5_WaitedFenceWasSubmitted ==
    \A k \in Calls("fences_wait") : log[k].issued

\* C5 (amended): the fence a tick blocks on has had a submission issued on
\* its slot before the wait exactly when at least in_flight_count - 1 slots
\* of the canvas have been submitted since Create; before that the slot has
\* never been submitted.
C5_WaitedFenceSubmittedOnceWarm ==
    \A k \in Calls("fences_wait") :
        log[k].issued <=> (log[k].nsub >= DVZ_MAX_FRAMES_IN_FLIGHT - 1)

\* A tick waits on a fence whose slot has been submitted, and whose work is done.
C5_Witness ==
    \E k \in Calls("fences_wait") : log[k].issued /\ log[k].nsub = DVZ_MAX_FRAMES_IN_FLIGHT

\* Every refill of a command buffer finds the dirty bit of its image set.
RecordedWhenDirty == \A k \in Calls("record_command") : log[k].was_dirty

\* A dirty bit that a step clears belongs to an image the step refilled.
ClearedByRecord ==
    \A id \in Ids, i \in Imgs :
        (canvases[id].recorder_dirty[i] /\ ~canvases'[id].recorder_dirty[i]) =>
            \E k \in 1 .. Len(log') :
                /\ log'[k].op = "record_command"
                /\ log'[k].id = id
                /\ log'[k].img_idx = i

\* C6: the dirty bit of an image is cleared only by the refill of that
\* image's command buffer, and every refill finds the bit set (set since the
\* previous clear by the recreation branch or by a change of the recorder's
\* content), so a bit is never cleared twice without a set in between and a
\* tick of the Ready branch never refills an image whose bit is clear.
C6_DirtyClearedOnceByRecord == []RecordedWhenDirty /\ [][ClearedByRecord]_vars

\* A tick of the Ready branch refilled the acquired image, whose bit a
\* change of the recorder's content had set.
C6_Witness ==
    /\ IsTick
    /\ TickStatus = "CREATED"
    /\ \E k \in Calls("record_command") : ~log[k].blank /\ log[k].img_idx = 1

\* C7: every submission finds the dirty bit of the acquired image clear and
\* its command buffer recorded after the last recreation of the swapchain and
\* after the last change of the recorder's content.
C7_NoStaleSubmission ==
    \A k \in Calls("submit_send") : ~log[k].dirty /\ log[k].fresh

\* A tick submitted a cached command buffer of a recorder that is not empty,
\* without refilling it.
C7_Witness ==
    /\ IsTick
    /\ Calls("submit_send") # {}
    /\ Calls("record_command") = {}
    /\ ~canvases[TickId].recorder_empty

\* C8: a tick of the NeedsRecreate branch sets the dirty bit of every image
\* and then refills the command buffer of every image exactly once, whichever
\* image it acquired; when it returns every dirty bit is clear.
C8_RecreateRecordsAll ==
    \A r \in Calls("canvas_recreate") :
        /\ \E d \in Calls("recorder_set_dirty") :
              /\ d > r
              /\ \A i \in Imgs :
                    Cardinality({k \in Calls("record_command") :
                                    /\ k > d
                                    /\ log[k].id = log[r].id
                                    /\ log[k].img_idx = i
                                    /\ log[k].was_dirty}) = 1
        /\ Cardinality(Calls("record_command")) = ImgCount
        /\ \A i \in Imgs : ~canvases[log[r].id].recorder_dirty[i]

\* A recreation in a tick that acquired the last image of the swapchain.
C8_Witness ==
    /\ Calls("canvas_recreate") # {}
    /\ \E k \in Calls("swapchain_acquire") :
          log[k].signaled /\ log[k].img_idx = ImgCount - 1

C10_ResizeIffRecreate ==
    /\ Cardinality(Calls("client_event")) = Cardinality(Calls("canvas_recreate"))
    /\ Cardinality(Calls("client_event")) <= 1
    /\ IsTick => ((TickStatus = "NEED_RECREATE") <=> (Calls("client_event") # {}))
    /\ \A k \in Calls("client_event") :
          /\ IsTick
          /\ \E r \in Calls("canvas_recreate") : r < k
          /\ log[k].type = "WINDOW_RESIZE"
          /\ log[k].window_id = TickId
          /\ log[k].framebuffer_width = canvases[TickId].width
          /\ log[k].framebuffer_height = canvases[TickId].height
          /\ log[k].screen_width = windows[TickId].width
          /\ log[k].screen_height = windows[TickId].height
          /\ log[k].framebuffer_width = ScaleOf(<<log[k].screen_width,
                                                  log[k].screen_height>>)
                                            * log[k].screen_width

\* A resize notification whose framebuffer size differs from its screen size.
C10_Witness ==
    \E k \in Calls("client_event") :
        log[k].framebuffer_width # log[k].screen_width

\* C11: for a surface whose recorder holds no drawing operation, every tick
\* that reaches the submission phase submits and presents, for the image it
\* acquired, a command buffer that was reset and filled with the blank pass
\* after the last recreation (never an unrecorded or stale one), and the
\* dirty bit of that image is clear when the tick returns.
C11_BlankWhenEmpty ==
    (IsTick /\ TickStatus = "CREATED" /\ canvases[TickId].recorder_empty) =>
        /\ Cardinality(Calls("submit_send")) = 1
        /\ Cardinality(Calls("swapchain_present")) = 1
        /\ \A k \in Calls("submit_send") :
              /\ log[k].img_idx = canvases[TickId].img_idx
              /\ log[k].buffers[1] = "cmds"
              /\ log[k].empty /\ log[k].blank /\ log[k].fresh /\ ~log[k].dirty
              /\ \E p \in Calls("swapchain_present") :
                    p > k /\ log[p].img_idx = log[k].img_idx
        /\ ~canvases[TickId].recorder_dirty[canvases[TickId].img_idx]

\* A tick that submits the buffer of an empty recorder on a slot used before.
C11_Witness ==
    /\ IsTick
    /\ \E k \in Calls("submit_send") : log[k].empty /\ log[k].blank /\ log[k].again

\* The entries of the registry that target the window `id`.
EntriesFor(id) == {i \in 1 .. Len(callbacks) : callbacks[i].window_id = id}

\* The most recent callback was a tick that reached the submission phase for
\* a window whose GUI window is bound and live.
IsOverlayTick ==
    /\ IsTick
    /\ TickStatus = "CREATED"
    /\ TickId \in guis
    /\ gui_windows[TickId] = "CREATED"

\* C12: in a tick for window X that has a bound GUI window and reaches the
\* submission phase, the overlay callbacks invoked are exactly the entries
\* of the registry that target X, each once and in registration order
\* (duplicates included), each with X's GUI window and its own user data,
\* between the begin and the end of the overlay recording; no entry that
\* targets another id is invoked.
C12_OverlayCallbacksOfWindow ==
    IsOverlayTick =>
        /\ \A i \in EntriesFor(TickId) :
              Cardinality({k \in Calls("gui_callback") : log[k].index = i}) = 1
        /\ \A k \in Calls("gui_callback") :
              /\ log[k].index \in EntriesFor(TickId)
              /\ log[k].callback = callbacks[log[k].index].callback
              /\ log[k].user_data = callbacks[log[k].index].user_data
              /\ log[k].gui_window = TickId
              /\ \E b \in Calls("gui_window_begin"), e \in Calls("gui_window_end") :
                    b < k /\ k < e
        /\ \A j, k \in Calls("gui_callback") :
              j < k => log[j].index < log[k].index

\* A tick that calls the same callback twice, for two entries of the
\* registry, and skips an entry registered before them for another id.
C12_Witness ==
    /\ IsOverlayTick
    /\ \E j, k \in Calls("gui_callback") :
          /\ j < k
          /\ log[j].callback = log[k].callback
          /\ \E i \in 1 .. Len(callbacks) :
                i < log[j].index /\ callbacks[i].window_id # TickId

\* The entries of the registry that target `id` with a built-in callback.
BuiltinFor(id, callback) ==
    {i \in EntriesFor(id) : callbacks[i].callback = callback}

\* The built-in entries that target the window of the tick are all invoked.
BuiltinInvoked ==
    IsOverlayTick =>
        \A i \in BuiltinFor(TickId, "_gui_callback_fps")
                    \cup BuiltinFor(TickId, "_gui_callback_monitoring") :
            Cardinality({k \in Calls("gui_callback") : log[k].index = i}) = 1

\* C13 (as stated): once canvas id is created with the overlay flag and both
\* monitoring overlays, whatever happened before (an earlier creation and
\* deletion of the same id too), the registry holds exactly 2 built-in
\* entries that target id, and both are invoked in every later tick for id
\* that reaches the submission phase.
C13_ExactlyTwoBuiltin ==
    /\ \A id \in Ids :
          (/\ prt.obj = "CREATED"
           /\ canvases[id].obj = "CREATED"
           /\ OverlayFlags(hist[id].flags))
          => Cardinality(BuiltinFor(id, "_gui_callback_fps")
                            \cup BuiltinFor(id, "_gui_callback_monitoring")) = 2
    /\ BuiltinInvoked

\* What the code does instead: until the presenter is destroyed, the registry
\* holds, for every creation of canvas id with the overlay flag and both
\* monitoring overlays, one frame-rate entry and one resource-usage entry
\* that target id (2 after the first such creation, 2 more after each later
\* one: the deletion of the canvas removes none), and every one of them is
\* invoked in every tick for id that reaches the submission phase.
C13_TwoBuiltinPerCreate ==
    /\ prt.obj = "CREATED" =>
          \A id \in Ids :
             /\ Cardinality(BuiltinFor(id, "_gui_callback_fps")) = count.overlays[id]
             /\ Cardinality(BuiltinFor(id, "_gui_callback_monitoring"))
                   = count.overlays[id]
    /\ BuiltinInvoked

\* A tick of a canvas created twice with the monitoring overlays: the
\* frame-rate callback is invoked for two entries.
C13_Witness ==
    /\ IsOverlayTick
    /\ count.overlays[TickId] = 2
    /\ Cardinality({k \in Calls("gui_callback") :
                       log[k].callback = "_gui_callback_fps"}) = 2

(***************************************************************************)
(* C14: the tracked surfaces.                                              *)
(***************************************************************************)

\* The ids of the surfaces in prt->surfaces.
Tracked == {surfaces[k] : k \in 1 .. Len(surfaces)}

\* The ids created and not yet deleted.
LiveIds == {id \in Ids : canvases[id].obj = "CREATED"}

\* C14: after any sequence of creations and deletions, and until the
\* presenter is destroyed, prt->surfaces holds the surface of every id
\* created and not yet deleted, once each, and no other surface.
C14_TrackedSurfaces ==
    prt.obj = "CREATED" =>
        /\ Tracked = LiveIds
        /\ Len(surfaces) = Cardinality(Tracked)

\* A batch created a canvas and deleted it at once, while another canvas
\* stays live: only the surface of the other canvas is tracked.
C14_Witness ==
    /\ prt.obj = "CREATED"
    /\ \E id \in Ids :
          /\ \E i \in Calls("create_canvas"), j \in Calls("delete_canvas") :
                i < j /\ log[i].id = id /\ log[j].id = id
          /\ Tracked = Ids \ {id}

(***************************************************************************)
(* C15: the map of GUI windows.                                            *)
(***************************************************************************)

\* C15: once the canvas of id has been deleted (and until the id is created
\* again or the presenter destroyed), prt->maps.guis has no entry for id: a
\* lookup of id returns no handle.
C15_NoGuiWindowAfterDelete ==
    prt.obj = "CREATED" =>
        \A id \in Ids : canvases[id].obj = "DESTROYED" => id \notin guis

(***************************************************************************)
(* C16: the destruction of the presenter.                                  *)
(***************************************************************************)

\* After dvz_presenter_destroy() the GUI is destroyed and no callback entry
\* is left allocated.
TeardownReleasesGui ==
    prt.obj = "DESTROYED" =>
        /\ prt.gui # "CREATED"
        /\ \A id \in Ids : gui_windows[id] # "CREATED"
        /\ callbacks = <<>>

\* After dvz_presenter_destroy() no created surface is left undestroyed.
TeardownReleasesSurfaces ==
    prt.obj = "DESTROYED" => \A id \in Ids : canvases[id].surface # "CREATED"

\* C16: after dvz_presenter_destroy(), whatever canvases were created and
\* deleted and whatever callbacks were registered before, every surface the
\* presenter tracked is destroyed, the GUI is destroyed, and every callback
\* entry is freed.
C16_TeardownReleasesAll == TeardownReleasesSurfaces /\ TeardownReleasesGui

(***************************************************************************)
(* C17: the release of the batches.                                        *)
(***************************************************************************)

\* The most recent callback was a call of dvz_presenter_submit(), or the
\* delivery of a REQUESTS event.
IsSubmit == log # <<>> /\ log[1].op = "presenter_submit"
IsRequests == log # <<>> /\ log[1].op = "requests"

\* The batch that dvz_presenter_submit() was just given is on its way to
\* _requester_callback(): it is the last REQUESTS event of the client.
HandedOver ==
    IsSubmit => events # <<>> /\ events[Len(events)] = log[1].batch

\* _requester_callback() releases the batch it was delivered exactly once, as
\* its last call, after one dvz_renderer_request() per request of the batch.
ReleasedOnceWhenDelivered ==
    IsRequests =>
        /\ Calls("batch_destroy") = {Len(log)}
        /\ log[Len(log)].batch = log[1].batch
        /\ Cardinality(Calls("renderer_request")) = Len(log[1].batch)

\* C17: every batch handed to dvz_presenter_submit(), whatever the number of
\* its requests, is released exactly once and after its last request was
\* applied: the call leaves it on the client's queue, and the callback that
\* is delivered it releases it at its end.
C17_BatchReleasedOnce == HandedOver /\ ReleasedOnceWhenDelivered

\* The same for the batches that hold a request.
NonEmptyBatchReleasedOnce ==
    /\ (IsSubmit /\ log[1].batch # <<>>) =>
           events # <<>> /\ events[Len(events)] = log[1].batch
    /\ ReleasedOnceWhenDelivered

(***************************************************************************)
(* C18: the tick that reads status INVALID.                                *)
(***************************************************************************)

\* The calls a tick makes up to the reading of the status.
AcquisitionOps == {"frame", "fences_wait", "swapchain_acquire", "status"}

\* After reading status INVALID the tick waits for the device to be idle and
\* makes no other call.
InvalidTickOnlyWaits ==
    (IsTick /\ TickStatus = "INVALID") =>
        /\ log[Len(log)].op = "gpu_wait"
        /\ \A k \in 1 .. (Len(log) - 1) : log[k].op \in AcquisitionOps

\* That tick leaves cur_frame, the dirty bit of every image and the position
\* in the ring of timestamps as they were.
InvalidTickKeepsCanvas ==
    (IsTick /\ TickStatus = "INVALID")' =>
        /\ canvases'[TickId'].cur_frame = canvases[TickId'].cur_frame
        /\ canvases'[TickId'].recorder_dirty = canvases[TickId'].recorder_dirty
        /\ canvases'[TickId'].frame_time_idx = canvases[TickId'].frame_time_idx
        /\ canvases'[TickId'].width = canvases[TickId'].width
        /\ canvases'[TickId'].height = canvases[TickId'].height

\* A tick that reads status CREATED submits and presents, whatever the ticks
\* before it read.
ValidTickPresents ==
    (IsTick /\ TickStatus = "CREATED") =>
        /\ Cardinality(Calls("submit_send")) = 1
        /\ Cardinality(Calls("swapchain_present")) = 1

\* C18: a tick that reads status INVALID after the acquisition waits for the
\* device to be idle and stops (no recreation, no resize event, nothing
\* recorded, submitted or presented), it leaves cur_frame, the dirty bits
\* and the ring of timestamps unchanged, and a later tick of the same canvas
\* that reads a valid status presents.
C18_InvalidTickDefers ==
    /\ [](InvalidTickOnlyWaits /\ ValidTickPresents)
    /\ [][InvalidTickKeepsCanvas]_vars

\* A canvas whose first tick read INVALID presents in a later tick.
C18_Witness ==
    /\ IsTick
    /\ hist[TickId].first = "invalid"
    /\ TickStatus = "CREATED"
    /\ Calls("swapchain_present") # {}

(***************************************************************************)
(* C19: the routing of the requests of a batch.                            *)
(***************************************************************************)

\* The position in the log of the k-th call of dvz_renderer_request(), and
\* the position that ends the calls made for the k-th request.
RequestAt(k) ==
    CHOOSE p \in Calls("renderer_request") :
        Cardinality({q \in Calls("renderer_request") : q < p}) = k - 1
RequestEnd(k) ==
    IF k < Cardinality(Calls("renderer_request")) THEN RequestAt(k + 1)
    ELSE Len(log)

\* The calls of _create_canvas() and _delete_canvas() made for the k-th
\* request: after the renderer was given it, before it is given the next.
CreatesOf(k) == {p \in Calls("create_canvas") : RequestAt(k) < p /\ p < RequestEnd(k)}
DeletesOf(k) == {p \in Calls("delete_canvas") : RequestAt(k) < p /\ p < RequestEnd(k)}

\* C19: _requester_callback() gives every request of the batch to the
\* renderer once, in the order of the batch; it calls _create_canvas() or
\* _delete_canvas() if and only if the request is of type CANVAS with
\* action CREATE or DELETE, once, for the id of the request, after the
\* renderer was given that request and before it is given the next one;
\* no other request makes it call either.
C19_RoutesInOrder ==
    IsRequests =>
        LET batch == log[1].batch
        IN /\ Cardinality(Calls("renderer_request")) = Len(batch)
           /\ \A p \in Calls("create_canvas") \cup Calls("delete_canvas") :
                 \E k \in 1 .. Len(batch) : p \in CreatesOf(k) \cup DeletesOf(k)
           /\ \A k \in 1 .. Len(batch) :
                 LET req == batch[k]
                     e == log[RequestAt(k)]
                     create == req.type = "CANVAS" /\ req.action = "CREATE"
                     delete == req.type = "CANVAS" /\ req.action = "DELETE"
                 IN /\ e.id = req.id /\ e.type = req.type /\ e.action = req.action
                    /\ Cardinality(CreatesOf(k)) = IF create THEN 1 ELSE 0
                    /\ Cardinality(DeletesOf(k)) = IF delete THEN 1 ELSE 0
                    /\ \A p \in CreatesOf(k) \cup DeletesOf(k) : log[p].id = req.id

\* A batch with a canvas request that is no creation and no deletion,
\* followed by the deletion of the canvas.
C19_Witness ==
    /\ IsRequests
    /\ Len(log[1].batch) = 2
    /\ log[1].batch[1].type = "CANVAS" /\ log[1].batch[1].action = "UPDATE"
    /\ log[1].batch[2].type = "CANVAS" /\ log[1].batch[2].action = "DELETE"
    /\ Calls("delete_canvas") # {}

(***************************************************************************)
(* C20: the order of the steps of _delete_canvas().                        *)
(***************************************************************************)

\* The position that ends the calls of the _delete_canvas() that starts at
\* position d: the next call of the router, or the end of the log.
DeleteEnd(d) ==
    LET after == {p \in (d + 1) .. Len(log) :
                     log[p].op \in {"renderer_request", "batch_destroy"}}
    IN IF after = {} THEN Len(log) + 1
       ELSE CHOOSE p \in after : \A q \in after : p <= q

\* The steps of the _delete_canvas() that starts at position d, in order.
DeleteSteps(d) ==
    [k \in 1 .. (DeleteEnd(d) - d - 1) |-> log[d + k].op]

AbortedAtLookup == Len(log) = 2 /\ log[2].op = "abort"

\* A tick for an id that has no window, or no canvas at all, aborts at the
\* lookups.
UnresolvedTickAborts ==
    (IsTick /\ (windows[TickId].obj # "CREATED" \/ log[1].canvas = "NONE"))
        => AbortedAtLookup

\* C21: a tick for an id whose canvas or recorder is not live (never
\* created, or destroyed by _delete_canvas()) aborts at the lookups: it
\* makes no fence wait, acquisition, recording, submission or presentation,
\* so that no tick works on a swapchain or a recorder that
\* _delete_canvas() has destroyed.
C21_TickNeedsLiveCanvas ==
    (IsTick /\ (log[1].canvas # "CREATED" \/ log[1].recorder_destroyed))
        => AbortedAtLookup

(***************************************************************************)
(* C22: when the overlay is recorded.                                      *)
(***************************************************************************)

\* The tick began the recording of the overlay, or its submission holds the
\* overlay command buffer.
OverlayRecorded ==
    \/ Calls("gui_window_begin") # {}
    \/ \E k \in Calls("submit_send") :
          \E j \in 1 .. Len(log[k].buffers) : log[k].buffers[j] = "gui"

\* A submission holds the main command buffer, then the overlay command
\* buffer if the overlay was recorded, and nothing else.
MainThenOverlay ==
    \A k \in Calls("submit_send") :
        log[k].buffers = IF Calls("gui_window_begin") # {}
                         THEN <<"cmds", "gui">> ELSE <<"cmds">>

\* What the code tests: the overlay is recorded only if the id has a GUI
\* window and the registry holds a callback, for whatever window.
OverlayOnlyWithAnyCallback ==
    /\ (IsTick /\ OverlayRecorded) => (TickId \in guis /\ callbacks # <<>>)
    /\ MainThenOverlay

\* C22: in a tick for window X the overlay is recorded and its command
\* buffer added to the submission only if X has a GUI window and the
\* registry holds a callback that targets X (a window with a GUI window and
\* no callback of its own submits its main command buffer only, whatever
\* is registered for other windows); the overlay buffer follows the main
\* buffer and a submission holds at most one of each.
C22_OverlayOnlyWithOwnCallback ==
    /\ (IsTick /\ OverlayRecorded) => (TickId \in guis /\ EntriesFor(TickId) # {})
    /\ MainThenOverlay

(***************************************************************************)
(* C23: the submissions in flight.                                         *)
(***************************************************************************)

\* The most recent callback ended with the device idle: a tick of the
\* INVALID or of the NEED_RECREATE branch, or a callback that deleted a
\* canvas (none of them submits after its wait).
EndedIdle ==
    \/ IsTick /\ TickStatus \in {"INVALID", "NEED_RECREATE"}
    \/ Calls("delete_canvas") # {}

\* C23: whatever the interleaving of ticks and completions of the GPU, a
\* canvas never has more than DVZ_MAX_FRAMES_IN_FLIGHT submissions whose
\* fence has not been signaled, and it has none after a wait for the
\* device to be idle (INVALID branch, NEED_RECREATE branch, deletion).
C23_BoundedInFlight ==
    /\ \A id \in Ids : Len(inflight[id]) <= DVZ_MAX_FRAMES_IN_FLIGHT
    /\ EndedIdle => \A id \in Ids : inflight[id] = <<>>

\* The deletion of a canvas that had a submission in flight: the wait
\* returned once the submission had completed.
C23_Witness ==
    /\ Calls("delete_canvas") # {}
    /\ \E k \in Calls("gpu_wait") : log[k].busy
    /\ \A id \in Ids : inflight[id] = <<>>

(***************************************************************************)
(* C24: one deletion per canvas.                                           *)
(***************************************************************************)

\* The calls that destroy an object of a canvas.
DestroyOps ==
    {"canvas_destroy", "recorder_destroy", "surface_destroy", "gui_window_destroy"}

\* C24: _delete_canvas() runs once at most for a canvas, whether a DELETE
\* request or the closing of the window (or one after the other) asks for
\* the deletion: the swapchain, the recorder, the surface and the GUI
\* window of an id are never destroyed a second time.
C24_DeletedOnce ==
    \A k \in 1 .. Len(log) : log[k].op \in DestroyOps => ~log[k].again

====
